---- MODULE Spec2Model ----
(***************************************************************************)
(* Model of MinC_1NrmRestorationPhase (src/Algorithm/IpRestoMinC_1Nrm.cpp). *)
(*                                                                         *)
(* The controller's members, the outer IpoptData fields it writes and the  *)
(* record of the last PerformRestoration call are the state.  The inner    *)
(* restoration algorithm (resto_alg_), IpoptCalculatedQuantities and the   *)
(* clock are collaborators: what the controller reads from them during a   *)
(* call is an input of the call, drawn from small sets.                    *)
(*                                                                         *)
(* Numbers.  Option values, violations and infeasibilities are integers in *)
(* units of 1e-9 (1e-3 is 1000000, 0.9 is 900000000).  Times are integers  *)
(* in seconds, with 1e20 ("no limit") standing as NoTimeLimit.  Vector     *)
(* entries are exact rationals <<n, d>>, d > 0, in lowest terms.           *)
(***************************************************************************)
EXTENDS Integers, Sequences, FiniteSets, TLC

\* ------------------------------------------------------------- bounds

\* PerformRestoration is called at most this often after InitializeImpl.
MaxRestorations == 2

\* A user-set max_wall_time / max_cpu_time, in seconds; the elapsed times a
\* call reads lie around it.
MaxElapsed == 1

\* Iterates produced by the inner algorithm are built from seeds 1..MaxSeed.
MaxSeed == 1

\* Slack vectors and the barrier parameter are built from 1..MaxSlack.
MaxSlack == 2

\* Dimension of every outer-space vector.
VecDim == 2

\* ------------------------------------------------- program constants

\* 1e20: a time limit at or above it is no limit (lines 127, 139).
NoTimeLimit == 1000000000

\* 1e-3: violation above which, and reduction which, the first call asks for
\* (lines 168, 173).
OneEm3 == 1000000

\* 1e8: default of resto.theta_max_fact (line 91).
ThetaMaxFactResto == 100000000

\* 1e2: factor of tol in the default resto_failure_feasibility_threshold
\* (line 96).
FeasThresholdFactor == 100

\* ------------------------------------------------------------ Number

Abs(n) == IF n < 0 THEN -n ELSE n

RECURSIVE GCD(_, _)
GCD(a, b) == IF b = 0 THEN a ELSE GCD(b, a % b)

\* The rational n/d in lowest terms with a positive denominator.
Rat(n, d) ==
    LET g == GCD(Abs(n), Abs(d))
        sg == IF d < 0 THEN -1 ELSE 1
    IN  <<(sg * n) \div g, (sg * d) \div g>>

RatAdd(p, q) == Rat(p[1] * q[2] + q[1] * p[2], p[2] * q[2])
RatSub(p, q) == Rat(p[1] * q[2] - q[1] * p[2], p[2] * q[2])
RatMul(p, q) == Rat(p[1] * q[1], p[2] * q[2])
RatDiv(p, q) == Rat(p[1] * q[2], p[2] * q[1])
RatAbs(p) == <<Abs(p[1]), p[2]>>
RatLess(p, q) == p[1] * q[2] < q[1] * p[2]
RatMax(p, q) == IF RatLess(p, q) THEN q ELSE p
RatMin(p, q) == IF RatLess(q, p) THEN q ELSE p

\* ------------------------------------------------------------ Vector

\* A vector holds its entries: the tuple of the values of f on 1..VecDim.
DenseVector(f) == SubSeq(f, 1, VecDim)

\* A vector with every entry c (Vector::Set).
VecSet(c) == DenseVector([i \in 1..VecDim |-> c])

\* y := x (Vector::Copy).
VecCopy(x) == DenseVector([i \in 1..VecDim |-> x[i]])

\* y := y + a * x (Vector::Axpy).
VecAxpy(y, a, x) == DenseVector([i \in 1..VecDim |-> RatAdd(y[i], RatMul(a, x[i]))])

\* y := y .* x (Vector::ElementWiseMultiply).
VecElementWiseMultiply(y, x) == DenseVector([i \in 1..VecDim |-> RatMul(y[i], x[i])])

\* y := y ./ x (Vector::ElementWiseDivide).
VecElementWiseDivide(y, x) == DenseVector([i \in 1..VecDim |-> RatDiv(y[i], x[i])])

\* y := y + c (Vector::AddScalar).
VecAddScalar(y, c) == DenseVector([i \in 1..VecDim |-> RatAdd(y[i], c)])

\* max_i |x_i| (Vector::Amax).
RECURSIVE AmaxUpTo(_, _)
AmaxUpTo(x, n) ==
    IF n = 0 THEN Rat(0, 1) ELSE RatMax(RatAbs(x[n]), AmaxUpTo(x, n - 1))

Amax(x) == AmaxUpTo(x, VecDim)

\* The vector k, k+1, ... : the bounded family the inputs are drawn from.
Vec(k) == DenseVector([i \in 1..VecDim |-> Rat(k + i - 1, 1)])

\* Block number c (from 0) of a compound vector (CompoundVector::GetComp).
GetComp(v, c) == v[c + 1]

\* ------------------------------------------------------- OptionsList

\* An OptionsList is a function from the tags that are set to their values.
SetValue(opts, tag, val) ==
    [t \in (DOMAIN opts) \cup {tag} |-> IF t = tag THEN val ELSE opts[t]]

\* OptionsList::SetNumericValueIfUnset, SetStringValueIfUnset: a tag that
\* is already set keeps its value.
SetValueIfUnset(opts, tag, val) ==
    IF tag \in DOMAIN opts THEN opts ELSE SetValue(opts, tag, val)

\* Registered default of an option the controller reads.
RegisteredDefault(tag) ==
    CASE tag = "constr_mult_reset_threshold" -> 0
      [] tag = "bound_mult_reset_threshold" -> 1000
      [] tag = "expect_infeasible_problem" -> "no"
      [] tag = "constr_viol_tol" -> 100000
      [] tag = "max_wall_time" -> NoTimeLimit
      [] tag = "max_cpu_time" -> NoTimeLimit
      [] tag = "resto_failure_feasibility_threshold" -> 0
      [] tag = "tol" -> 10

\* OptionsList::GetNumericValue / GetBoolValue: the value set, else the default.
GetValue(opts, tag) ==
    IF tag \in DOMAIN opts THEN opts[tag] ELSE RegisteredDefault(tag)

\* ---------------------------------------------------- IteratesVector

\* The iterate whose vectors are built from seed k; every field differs.
Iterate(k) ==
    [x |-> Vec(k), s |-> Vec(k + 1), y_c |-> Vec(k + 2), y_d |-> Vec(k + 3),
     z_L |-> Vec(k), z_U |-> Vec(k + 1), v_L |-> Vec(k + 2), v_U |-> Vec(k + 3)]

\* An iterate of the restoration NLP: every vector is a CompoundVector whose
\* block 0 is the outer-space part and whose block 1 holds the extra
\* variables of the restoration problem.
RestoIterate(k) ==
    [x |-> <<Vec(k + 1), Vec(k + 11)>>, s |-> <<Vec(k + 2), Vec(k + 12)>>,
     y_c |-> <<Vec(k + 3), Vec(k + 13)>>, y_d |-> <<Vec(k + 4), Vec(k + 14)>>,
     z_L |-> <<Vec(k + 5), Vec(k + 15)>>, z_U |-> <<Vec(k + 6), Vec(k + 16)>>,
     v_L |-> <<Vec(k + 7), Vec(k + 17)>>, v_U |-> <<Vec(k + 8), Vec(k + 18)>>]

\* IteratesVector::Set_primal on a new container of `it`.
Set_primal(it, x, s) == [it EXCEPT !.x = x, !.s = s]

\* IteratesVector::Set_eq_mult.
Set_eq_mult(it, y_c, y_d) == [it EXCEPT !.y_c = y_c, !.y_d = y_d]

\* IteratesVector::Set_bound_mult.
Set_bound_mult(it, z_L, z_U, v_L, v_U) ==
    [it EXCEPT !.z_L = z_L, !.z_U = z_U, !.v_L = v_L, !.v_U = v_U]

\* A SmartPtr is the empty sequence (NULL) or a sequence holding the object.
IsValid(ptr) == ptr # <<>>

\* -------------------------------------------------------------- state

VARIABLES
    resto_options_,                        \* SmartPtr<OptionsList>
    constr_mult_reset_threshold_,
    bound_mult_reset_threshold_,
    expect_infeasible_problem_,
    constr_viol_tol_,
    max_wall_time_,
    max_cpu_time_,
    resto_failure_feasibility_threshold_,
    count_restorations_,
    curr,                  \* IpData().curr()
    trial,                 \* IpData().trial()
    iter_count,            \* IpData().iter_count()
    info_skip_output,      \* IpData().info_skip_output()
    call,                  \* what the last PerformRestoration call read
    actual_resto_options,  \* the options it handed to resto_alg_->Initialize
    bound_mult_max,        \* its local bound_mult_max (line 394)
    events,                \* the calls it made on its collaborators, in order
    outcome,               \* how it ended: the exception thrown or the value returned
    frame                  \* a call of ComputeBoundMultiplierStep taken alone,
                           \* statement by statement: its arguments, its
                           \* local mu and the line it is at

members ==
    <<resto_options_, constr_mult_reset_threshold_, bound_mult_reset_threshold_,
      expect_infeasible_problem_, constr_viol_tol_, max_wall_time_, max_cpu_time_,
      resto_failure_feasibility_threshold_, count_restorations_>>

ip_data == <<curr, trial, iter_count, info_skip_output>>

last_call == <<call, actual_resto_options, bound_mult_max, events, outcome>>

vars == <<members, ip_data, last_call, frame>>

\* -------------------------------------------------------- user options

\* What a user may set: each tag is set or left at its default, the last
\* three together.
UserSettings ==
    [max_wall_time |-> MaxElapsed,
     max_cpu_time |-> MaxElapsed,
     expect_infeasible_problem |-> "yes",
     required_infeasibility_reduction |-> 900000000,
     bound_mult_reset_threshold |-> 4,
     resto_failure_feasibility_threshold |-> 5]

Thresholds ==
    {"required_infeasibility_reduction", "bound_mult_reset_threshold",
     "resto_failure_feasibility_threshold"}

UserOptionLists ==
    {[t \in tags |-> UserSettings[t]] :
        tags \in {ts \in SUBSET (DOMAIN UserSettings) :
                     Thresholds \subseteq ts \/ Thresholds \cap ts = {}}}

\* The inputs of a call that reads nothing.
NoCall ==
    [elapsed_wall |-> 0, elapsed_cpu |-> 0, square_problem |-> FALSE,
     curr_constraint_violation |-> 0, resto_status |-> "NONE",
     resto_curr |-> <<>>, unscaled_violation |-> 0,
     curr_primal_infeasibility |-> 0, curr_mu |-> Rat(0, 1),
     curr_tau |-> Rat(0, 1), curr_slack |-> 0, trial_slack |-> 0,
     lsq_estimate |-> 0, resto_iterations |-> 0]

\* No call of ComputeBoundMultiplierStep is followed statement by statement.
NoFrame ==
    [pc |-> "none", call_no |-> 0, curr_mu |-> Rat(0, 1), mu |-> Rat(0, 1),
     delta_z |-> <<>>, curr_z |-> <<>>, curr_slack |-> <<>>, trial_slack |-> <<>>,
     previous |-> <<>>]

\* The state after construction (lines 18-27): resto_options_ is NULL, the
\* other members are not yet set and are not read before InitializeImpl.
Constructed ==
    /\ resto_options_ = <<>>
    /\ constr_mult_reset_threshold_ = 0
    /\ bound_mult_reset_threshold_ = 0
    /\ expect_infeasible_problem_ = FALSE
    /\ constr_viol_tol_ = 0
    /\ max_wall_time_ = 0
    /\ max_cpu_time_ = 0
    /\ resto_failure_feasibility_threshold_ = 0
    /\ count_restorations_ = 0
    /\ curr = Iterate(1)
    /\ trial = Iterate(1)
    /\ iter_count = 0
    /\ info_skip_output = FALSE
    /\ call = NoCall
    /\ actual_resto_options = <<>>
    /\ bound_mult_max = Rat(0, 1)
    /\ events = <<>>
    /\ outcome = "NONE"

Init == Constructed /\ frame = NoFrame

\* ------------------------------------------------------ InitializeImpl

\* resto_options_ after lines 70-92.
InitialRestoOptions(options) ==
    LET copy == SetValue(options, "resto.start_with_resto", "no")
    IN  IF "resto.theta_max_fact" \in DOMAIN options
        THEN copy
        ELSE SetValue(copy, "resto.theta_max_fact", ThetaMaxFactResto)

\* resto_failure_feasibility_threshold_ after lines 94-97.
InitialFeasibilityThreshold(options) ==
    IF "resto_failure_feasibility_threshold" \in DOMAIN options
    THEN options["resto_failure_feasibility_threshold"]
    ELSE FeasThresholdFactor * GetValue(options, "tol")

InitializeImpl(options) ==
    /\ ~IsValid(resto_options_)
    /\ resto_options_' = <<InitialRestoOptions(options)>>
    /\ constr_mult_reset_threshold_' = GetValue(options, "constr_mult_reset_threshold")
    /\ bound_mult_reset_threshold_' = GetValue(options, "bound_mult_reset_threshold")
    /\ expect_infeasible_problem_' = (GetValue(options, "expect_infeasible_problem") = "yes")
    /\ constr_viol_tol_' = GetValue(options, "constr_viol_tol")
    /\ max_wall_time_' = GetValue(options, "max_wall_time")
    /\ max_cpu_time_' = GetValue(options, "max_cpu_time")
    /\ resto_failure_feasibility_threshold_' = InitialFeasibilityThreshold(options)
    /\ count_restorations_' = 0
    /\ UNCHANGED <<ip_data, last_call, frame>>

\* -------------------------------------------------- PerformRestoration

\* The wall-clock budget counts as used up only once it is overrun.
WallTimeOverrun(elapsed) ==
    max_wall_time_ < NoTimeLimit /\ elapsed > max_wall_time_

\* Lines 127-135: the wall-clock budget is finite and used up.
WallTimeExceeded(elapsed) ==
    max_wall_time_ < NoTimeLimit /\ elapsed >= max_wall_time_

\* Lines 139-147: the CPU budget is finite and used up.
CpuTimeExceeded(elapsed) ==
    max_cpu_time_ < NoTimeLimit /\ elapsed >= max_cpu_time_

\* Line 136: *resto_options_ once the wall-clock check has passed.
WithWallTimeLimit(opts, elapsed) ==
    IF max_wall_time_ < NoTimeLimit
    THEN SetValue(opts, "resto.max_wall_time", max_wall_time_ - elapsed)
    ELSE opts

\* Line 148: *resto_options_ once the CPU check has passed.
WithCpuTimeLimit(opts, elapsed) ==
    IF max_cpu_time_ < NoTimeLimit
    THEN SetValue(opts, "resto.max_cpu_time", max_cpu_time_ - elapsed)
    ELSE opts

\* The reduction is set whether or not the options carry a value for it.
ForceOption(opts, tag, val) == SetValue(opts, tag, val)

\* Lines 162, 167, 173: the overrides of the controller go through the
\* ...IfUnset setters of OptionsList.
OverrideOption(opts, tag, val) == SetValueIfUnset(opts, tag, val)

\* Lines 156-175: *actual_resto_options, from *resto_options_.
ActualRestoOptions(opts, square_problem, count, violation) ==
    IF square_problem
    THEN OverrideOption(opts, "required_infeasibility_reduction", 0)
    ELSE IF expect_infeasible_problem_
    THEN LET nested == OverrideOption(opts, "resto.expect_infeasible_problem", "no")
         IN  IF count = 1 /\ violation > OneEm3
             THEN OverrideOption(nested, "required_infeasibility_reduction", OneEm3)
             ELSE nested
    ELSE opts

\* The overrides are made on *resto_options_ itself.
OverriddenRestoOptions(opts, actual) == actual

\* Lines 159, 166: the overrides are made on a new OptionsList, a copy of
\* *resto_options_, so *resto_options_ is what it was before them.
StoredRestoOptions(opts, actual) == opts

\* The salvage without the bound multipliers.
SalvagedPrimalAndEqMult(tr, resto_curr) ==
    Set_eq_mult(
        Set_primal(tr, GetComp(resto_curr.x, 0), GetComp(resto_curr.s, 0)),
        GetComp(resto_curr.y_c, 0), GetComp(resto_curr.y_d, 0))

\* Lines 204-242: the new trial container with block 0 of every vector of
\* the restoration iterate resto_curr.
SalvagedTrial(tr, resto_curr) ==
    Set_bound_mult(
        Set_eq_mult(
            Set_primal(tr, GetComp(resto_curr.x, 0), GetComp(resto_curr.s, 0)),
            GetComp(resto_curr.y_c, 0), GetComp(resto_curr.y_d, 0)),
        GetComp(resto_curr.z_L, 0), GetComp(resto_curr.z_U, 0),
        GetComp(resto_curr.v_L, 0), GetComp(resto_curr.v_U, 0))

\* The acceptable-point test with <= in place of <.
AcceptablyFeasibleOrAtTol(violation) == violation <= constr_viol_tol_

\* Lines 269, 356: the two tests of the unscaled constraint violation of a
\* square problem against constr_viol_tol_.
AcceptablyFeasible(violation) == violation < constr_viol_tol_

\* The early-exit test with < in place of <=.
StrictlyFeasible(violation) == violation < constr_viol_tol_

SufficientlyFeasible(violation) == violation <= constr_viol_tol_

\* The infeasibility test with < in place of <=.
StrictlySmallPrimalInfeasibility(orig_primal_inf) ==
    orig_primal_inf < resto_failure_feasibility_threshold_

\* Line 281.
SmallPrimalInfeasibility(orig_primal_inf) ==
    orig_primal_inf <= resto_failure_feasibility_threshold_

\* The call returns retval itself, which is 1 for a status no branch names.
UnexpectedStatusReturnsRetval == "RETURN_TRUE"

\* The last branch of the dispatch throws.
UnexpectedStatusThrows == "RESTORATION_FAILED"

\* Lines 327-332 and 427: a status no branch names sets retval = 1, and the
\* call returns retval == 0.
UnexpectedStatusOutcome == "RETURN_FALSE"

\* Lines 269-332: how a call ends whose restoration status is not SUCCESS.
FailureOutcome(status, square_problem, violation, orig_primal_inf) ==
    IF square_problem /\ status = "STOP_AT_ACCEPTABLE_POINT" /\ AcceptablyFeasible(violation)
    THEN "FEASIBILITY_PROBLEM_SOLVED"
    ELSE IF status = "STOP_AT_TINY_STEP" \/ status = "STOP_AT_ACCEPTABLE_POINT"
    THEN IF SmallPrimalInfeasibility(orig_primal_inf)
         THEN "RESTORATION_CONVERGED_TO_FEASIBLE_POINT"
         ELSE "LOCALLY_INFEASIBLE"
    ELSE IF status = "MAXITER_EXCEEDED" THEN "RESTORATION_MAXITER_EXCEEDED"
    ELSE IF status = "CPUTIME_EXCEEDED" THEN "RESTORATION_CPUTIME_EXCEEDED"
    ELSE IF status = "WALLTIME_EXCEEDED" THEN "RESTORATION_WALLTIME_EXCEEDED"
    ELSE IF status = "LOCAL_INFEASIBILITY" THEN "LOCALLY_INFEASIBLE"
    ELSE IF status = "RESTORATION_FAILURE" THEN "RESTORATION_FAILED"
    ELSE IF status = "ERROR_IN_STEP_COMPUTATION" THEN "RESTORATION_FAILED"
    ELSE IF status = "USER_REQUESTED_STOP" THEN "RESTORATION_USER_STOP"
    ELSE UnexpectedStatusOutcome

\* Lines 430-445.
ComputeBoundMultiplierStep(curr_z, curr_slack, trial_slack, mu) ==
    LET d1 == VecCopy(curr_slack)
        d2 == VecAxpy(d1, Rat(-1, 1), trial_slack)
        d3 == VecElementWiseMultiply(d2, curr_z)
        d4 == VecAddScalar(d3, mu)
        d5 == VecElementWiseDivide(d4, curr_slack)
    IN  VecAxpy(d5, Rat(-1, 1), curr_z)

\* Vector::FracToBound: the largest alpha in (0, 1] with
\* z + alpha * delta >= (1 - tau) * z.
RECURSIVE FracToBoundUpTo(_, _, _, _)
FracToBoundUpTo(z, delta, tau, n) ==
    IF n = 0 THEN Rat(1, 1)
    ELSE LET rest == FracToBoundUpTo(z, delta, tau, n - 1)
         IN  IF RatLess(delta[n], Rat(0, 1))
             THEN RatMin(rest, RatDiv(RatMul(tau, z[n]), RatSub(Rat(0, 1), delta[n])))
             ELSE rest

\* IpCq().dual_frac_to_the_bound (line 386), on the current bound multipliers.
dual_frac_to_the_bound(tau, delta) ==
    RatMin(RatMin(FracToBoundUpTo(curr.z_L, delta.z_L, tau, VecDim),
                  FracToBoundUpTo(curr.z_U, delta.z_U, tau, VecDim)),
           RatMin(FracToBoundUpTo(curr.v_L, delta.v_L, tau, VecDim),
                  FracToBoundUpTo(curr.v_U, delta.v_U, tau, VecDim)))

\* IpData().SetTrialBoundMultipliersFromStep (line 391):
\* trial z := curr z + alpha * delta z, for the four bound multipliers.
SetTrialBoundMultipliersFromStep(tr, alpha, delta) ==
    Set_bound_mult(tr,
        VecAxpy(curr.z_L, alpha, delta.z_L), VecAxpy(curr.z_U, alpha, delta.z_U),
        VecAxpy(curr.v_L, alpha, delta.v_L), VecAxpy(curr.v_U, alpha, delta.v_U))

\* Line 394.
BoundMultMax(tr) ==
    RatMax(RatMax(Amax(tr.z_L), Amax(tr.z_U)), RatMax(Amax(tr.v_L), Amax(tr.v_U)))

\* Line 396.
BoundMultipliersTooLarge(max) == RatLess(Rat(bound_mult_reset_threshold_, 1), max)

\* The reset of the multipliers of the variable bounds only.
ResetVariableBoundMultipliers(tr) ==
    Set_bound_mult(tr, VecSet(Rat(1, 1)), VecSet(Rat(1, 1)), tr.v_L, tr.v_U)

\* Lines 398-408: a new container of the trial point with the four bound
\* multipliers set to 1.
ResetBoundMultipliers(tr) ==
    Set_bound_mult(tr, VecSet(Rat(1, 1)), VecSet(Rat(1, 1)),
                   VecSet(Rat(1, 1)), VecSet(Rat(1, 1)))

\* DefaultIterateInitializer::least_square_mults (line 413): the trial
\* point gets the estimate of the equality and inequality multipliers.
least_square_mults(tr, estimate) == Set_eq_mult(tr, estimate.y_c, estimate.y_d)

\* Line 115.
IncrementedCount(count) == count + 1

\* The delta vector of lines 370-379: the four steps of the bound multipliers.
BoundMultiplierSteps(in) ==
    [z_L |-> ComputeBoundMultiplierStep(curr.z_L, in.curr_slack.x_L, in.trial_slack.x_L, in.curr_mu),
     z_U |-> ComputeBoundMultiplierStep(curr.z_U, in.curr_slack.x_U, in.trial_slack.x_U, in.curr_mu),
     v_L |-> ComputeBoundMultiplierStep(curr.v_L, in.curr_slack.s_L, in.trial_slack.s_L, in.curr_mu),
     v_U |-> ComputeBoundMultiplierStep(curr.v_U, in.curr_slack.s_U, in.trial_slack.s_U, in.curr_mu)]

\* Lines 386-391: the trial point with the repaired bound multipliers.
RepairedTrial(tr, in) ==
    LET delta == BoundMultiplierSteps(in)
        alpha_dual == dual_frac_to_the_bound(in.curr_tau, delta)
    IN  SetTrialBoundMultipliersFromStep(tr, alpha_dual, delta)

\* The end of a call: the members and the outer data it leaves, and its record.
EndCall(in, count, opts, new_curr, new_trial, new_iter_count, skip, actual, max, evs, out) ==
    [count_restorations_ |-> count, resto_options_ |-> <<opts>>,
     curr |-> new_curr, trial |-> new_trial, iter_count |-> new_iter_count,
     info_skip_output |-> skip, call |-> in, actual_resto_options |-> actual,
     bound_mult_max |-> max, events |-> evs, outcome |-> out]

\* Lines 196-332: the restoration algorithm ended with a status other than SUCCESS.
RestorationNotSuccessful(in, count, opts, actual) ==
    LET salvage == IsValid(in.resto_curr)
        new_trial == IF salvage THEN SalvagedTrial(trial, in.resto_curr[1]) ELSE trial
        new_curr == IF salvage THEN new_trial ELSE curr
        out == FailureOutcome(in.resto_status, in.square_problem,
                              in.unscaled_violation, in.curr_primal_infeasibility)
        evs == <<"Initialize", "Optimize">>
               \o (IF salvage THEN <<"set_trial", "AcceptTrialPoint">> ELSE <<>>)
               \o (IF out = "RETURN_FALSE" THEN <<"return">> ELSE <<"throw">>)
    IN  EndCall(in, count, opts, new_curr, new_trial, iter_count, info_skip_output,
                <<actual>>, Rat(0, 1), evs, out)

\* Lines 249-268 and 334-427: the restoration algorithm ended with SUCCESS.
RestorationSuccessful(in, count, opts, actual) ==
    LET resto_curr == in.resto_curr[1]
        primal == Set_primal(trial, GetComp(resto_curr.x, 0), GetComp(resto_curr.s, 0))
    IN  IF in.square_problem /\ SufficientlyFeasible(in.unscaled_violation)
        THEN EndCall(in, count, opts, primal, primal, iter_count, info_skip_output,
                     <<actual>>, Rat(0, 1),
                     <<"Initialize", "Optimize", "set_trial", "AcceptTrialPoint", "throw">>,
                     "FEASIBILITY_PROBLEM_SOLVED")
        ELSE LET repaired == RepairedTrial(primal, in)
                 max == BoundMultMax(repaired)
                 reset == BoundMultipliersTooLarge(max)
                 bounded == IF reset THEN ResetBoundMultipliers(repaired) ELSE repaired
                 new_trial == least_square_mults(bounded, in.lsq_estimate)
                 resto_iter_count == (iter_count + 1) + in.resto_iterations
                 evs == <<"Initialize", "Optimize", "set_trial",
                          "ComputeBoundMultiplierStep", "ComputeBoundMultiplierStep",
                          "ComputeBoundMultiplierStep", "ComputeBoundMultiplierStep",
                          "SetTrialBoundMultipliersFromStep">>
                        \o (IF reset THEN <<"set_trial">> ELSE <<>>)
                        \o <<"least_square_mults", "return">>
             IN  EndCall(in, count, opts, curr, new_trial, resto_iter_count - 1, TRUE,
                         <<actual>>, max, evs, "RETURN_TRUE")

\* Lines 109-428, on the inputs `in` the call reads: what the call leaves.
PerformRestoration(in) ==
       LET count == IncrementedCount(count_restorations_)
           opts0 == resto_options_[1]
           opts1 == WithWallTimeLimit(opts0, in.elapsed_wall)
           opts2 == WithCpuTimeLimit(opts1, in.elapsed_cpu)
           actual == ActualRestoOptions(opts2, in.square_problem, count,
                                        in.curr_constraint_violation)
           opts3 == StoredRestoOptions(opts2, actual)
       IN  IF WallTimeExceeded(in.elapsed_wall)
           THEN EndCall(in, count, opts0, curr, trial, iter_count, info_skip_output,
                        <<>>, Rat(0, 1), <<"throw">>, "RESTORATION_WALLTIME_EXCEEDED")
           ELSE IF CpuTimeExceeded(in.elapsed_cpu)
           THEN EndCall(in, count, opts1, curr, trial, iter_count, info_skip_output,
                        <<>>, Rat(0, 1), <<"throw">>, "RESTORATION_CPUTIME_EXCEEDED")
           ELSE IF in.resto_status = "SUCCESS"
           THEN RestorationSuccessful(in, count, opts3, actual)
           ELSE RestorationNotSuccessful(in, count, opts3, actual)

\* ---------------------------------------------------------- the inputs

\* SolverReturn values resto_alg_->Optimize can end with, other than SUCCESS:
\* the nine the dispatch names and two it does not.
FailureStatuses ==
    {"STOP_AT_TINY_STEP", "STOP_AT_ACCEPTABLE_POINT", "MAXITER_EXCEEDED",
     "CPUTIME_EXCEEDED", "WALLTIME_EXCEEDED", "LOCAL_INFEASIBILITY",
     "RESTORATION_FAILURE", "ERROR_IN_STEP_COMPUTATION", "USER_REQUESTED_STOP",
     "DIVERGING_ITERATES", "INVALID_NUMBER_DETECTED"}

UnnamedStatuses == {"DIVERGING_ITERATES", "INVALID_NUMBER_DETECTED"}

\* Values on both sides of a threshold, and the threshold itself.
Around(threshold) == {threshold - 1, threshold, threshold + 1}

\* The elapsed time a check reads: none (0) when the limit is not finite.
ElapsedReads(limit) == IF limit < NoTimeLimit THEN Around(limit) ELSE {0}

\* What the repair of the bound multipliers reads: the barrier parameter, tau,
\* the slacks of the current and the trial point (the slacks of x move from
\* seed a to seed MaxSlack + 1 - a and back, those of s stay), the least-square estimate
\* and the number of iterations the restoration algorithm made.
RepairReads ==
    {[curr_mu |-> Rat(m, 1), curr_tau |-> Rat(1, 2),
      curr_slack |-> [x_L |-> Vec(a), x_U |-> Vec(MaxSlack + 1 - a),
                      s_L |-> Vec(a), s_U |-> Vec(MaxSlack + 1 - a)],
      trial_slack |-> [x_L |-> Vec(MaxSlack + 1 - a), x_U |-> Vec(a),
                       s_L |-> Vec(a), s_U |-> Vec(MaxSlack + 1 - a)],
      lsq_estimate |-> [y_c |-> Vec(a), y_d |-> Vec(a + 1)],
      resto_iterations |-> 1] :
        m \in {1, 2 * MaxSlack}, a \in 1..MaxSlack}

NoRepairReads ==
    {[curr_mu |-> NoCall.curr_mu, curr_tau |-> NoCall.curr_tau,
      curr_slack |-> NoCall.curr_slack, trial_slack |-> NoCall.trial_slack,
      lsq_estimate |-> NoCall.lsq_estimate,
      resto_iterations |-> NoCall.resto_iterations]}

\* A call of PerformRestoration with the elapsed times at its entry, the
\* constraint violation of the current iterate where the problem is one the
\* code may read it for, and the other values it reads, each drawn only
\* when the code reaches the read (0, NULL or "NONE" otherwise).
Restore ==
    /\ IsValid(resto_options_)
    /\ outcome = "NONE"
    /\ count_restorations_ < MaxRestorations
    /\ \E ew \in ElapsedReads(max_wall_time_) :
       \E ec \in ElapsedReads(max_cpu_time_) :
       \E time_exceeded \in {WallTimeExceeded(ew) \/ CpuTimeExceeded(ec)} :
       \E sq \in (IF time_exceeded THEN {FALSE} ELSE BOOLEAN) :
       \E cv \in (IF ~time_exceeded /\ ~sq /\ expect_infeasible_problem_
                  THEN Around(OneEm3) ELSE {0}) :
       \E st \in (IF time_exceeded THEN {"NONE"} ELSE FailureStatuses \cup {"SUCCESS"}) :
       \E rc \in (IF st = "NONE" THEN {<<>>}
                  ELSE {<<RestoIterate(k)>> : k \in 1..MaxSeed}
                       \cup (IF st = "SUCCESS" THEN {} ELSE {<<>>})) :
       \E uv \in (IF sq /\ st \in {"SUCCESS", "STOP_AT_ACCEPTABLE_POINT"}
                  THEN Around(constr_viol_tol_) ELSE {0}) :
       \E pi \in (IF st \in {"STOP_AT_TINY_STEP", "STOP_AT_ACCEPTABLE_POINT"}
                     /\ ~(sq /\ st = "STOP_AT_ACCEPTABLE_POINT" /\ AcceptablyFeasible(uv))
                  THEN Around(resto_failure_feasibility_threshold_) ELSE {0}) :
       \E rr \in (IF st = "SUCCESS" /\ ~(sq /\ SufficientlyFeasible(uv))
                  THEN RepairReads ELSE NoRepairReads) :
       \E in \in {[elapsed_wall |-> ew, elapsed_cpu |-> ec, square_problem |-> sq,
                   curr_constraint_violation |-> cv, resto_status |-> st,
                   resto_curr |-> rc, unscaled_violation |-> uv,
                   curr_primal_infeasibility |-> pi, curr_mu |-> rr.curr_mu,
                   curr_tau |-> rr.curr_tau, curr_slack |-> rr.curr_slack,
                   trial_slack |-> rr.trial_slack, lsq_estimate |-> rr.lsq_estimate,
                   resto_iterations |-> rr.resto_iterations]} :
       \E end \in {PerformRestoration(in)} :
           /\ count_restorations_' = end.count_restorations_
           /\ resto_options_' = end.resto_options_
           /\ curr' = end.curr
           /\ trial' = end.trial
           /\ iter_count' = end.iter_count
           /\ info_skip_output' = end.info_skip_output
           /\ call' = end.call
           /\ actual_resto_options' = end.actual_resto_options
           /\ bound_mult_max' = end.bound_mult_max
           /\ events' = end.events
           /\ outcome' = end.outcome
           /\ UNCHANGED <<constr_mult_reset_threshold_, bound_mult_reset_threshold_,
                          expect_infeasible_problem_, constr_viol_tol_, max_wall_time_,
                          max_cpu_time_, resto_failure_feasibility_threshold_, frame>>

Initialize == \E options \in UserOptionLists : InitializeImpl(options)

\* The call is over: the caller has its return value or its exception, and
\* the locals of the call are gone.
ReturnToCaller ==
    /\ outcome # "NONE"
    /\ call' = NoCall
    /\ actual_resto_options' = <<>>
    /\ bound_mult_max' = Rat(0, 1)
    /\ events' = <<>>
    /\ outcome' = "NONE"
    /\ UNCHANGED <<members, ip_data, frame>>

Next == Initialize \/ Restore \/ ReturnToCaller

Spec == Init /\ [][Next]_vars

\* ------------------------------------- ComputeBoundMultiplierStep alone

\* The arguments a call may be made with: the bound multipliers curr_z (one
\* choice with entries 0), the slacks of the current point, the slacks of
\* the trial point (not moved, all moved, or only the first moved), the
\* barrier parameter of IpData(), and what delta_z holds on entry (the 0.0
\* of line 371, or something else).
StepFrames ==
    {[pc |-> "437", call_no |-> 1, curr_mu |-> m, mu |-> Rat(0, 1),
      delta_z |-> d, curr_z |-> z, curr_slack |-> sl, trial_slack |-> t,
      previous |-> <<>>] :
        m \in {Rat(1, 1), Rat(1, 10)},
        d \in {VecSet(Rat(0, 1)), Vec(MaxSlack)},
        z \in {Vec(k) : k \in 1..MaxSeed} \cup {VecSet(Rat(0, 1))},
        sl \in {Vec(a) : a \in 1..MaxSlack},
        t \in {Vec(a) : a \in 1..MaxSlack}
              \cup {[Vec(a) EXCEPT ![1] = RatAdd(@, Rat(1, 2))] : a \in 1..MaxSlack}}

StepInit == Constructed /\ frame \in StepFrames

\* Line 437: Number mu = IpData().curr_mu();
ReadMu ==
    /\ frame.pc = "437"
    /\ frame' = [frame EXCEPT !.pc = "439", !.mu = frame.curr_mu]
    /\ UNCHANGED <<members, ip_data, last_call>>

\* Line 439: delta_z.Copy(curr_slack);
Copy ==
    /\ frame.pc = "439"
    /\ frame' = [frame EXCEPT !.pc = "440", !.delta_z = VecCopy(frame.curr_slack)]
    /\ UNCHANGED <<members, ip_data, last_call>>

\* Line 440: delta_z.Axpy(-1., trial_slack);
AxpyTrialSlack ==
    /\ frame.pc = "440"
    /\ frame' = [frame EXCEPT !.pc = "441",
                              !.delta_z = VecAxpy(frame.delta_z, Rat(-1, 1), frame.trial_slack)]
    /\ UNCHANGED <<members, ip_data, last_call>>

\* Line 441: delta_z.ElementWiseMultiply(curr_z);
ElementWiseMultiply ==
    /\ frame.pc = "441"
    /\ frame' = [frame EXCEPT !.pc = "442",
                              !.delta_z = VecElementWiseMultiply(frame.delta_z, frame.curr_z)]
    /\ UNCHANGED <<members, ip_data, last_call>>

\* Line 442: delta_z.AddScalar(mu);
AddScalar ==
    /\ frame.pc = "442"
    /\ frame' = [frame EXCEPT !.pc = "443",
                              !.delta_z = VecAddScalar(frame.delta_z, frame.mu)]
    /\ UNCHANGED <<members, ip_data, last_call>>

\* The division by the slacks of the trial point.
ElementWiseDivideByTrialSlack ==
    /\ frame.pc = "443"
    /\ frame' = [frame EXCEPT !.pc = "444",
                              !.delta_z = VecElementWiseDivide(frame.delta_z, frame.trial_slack)]
    /\ UNCHANGED <<members, ip_data, last_call>>

\* Line 443: delta_z.ElementWiseDivide(curr_slack);
ElementWiseDivide ==
    /\ frame.pc = "443"
    /\ frame' = [frame EXCEPT !.pc = "444",
                              !.delta_z = VecElementWiseDivide(frame.delta_z, frame.curr_slack)]
    /\ UNCHANGED <<members, ip_data, last_call>>

\* Line 444: delta_z.Axpy(-1., curr_z); the call returns at line 445.
AxpyCurrZ ==
    /\ frame.pc = "444"
    /\ frame' = [frame EXCEPT !.pc = "445",
                              !.delta_z = VecAxpy(frame.delta_z, Rat(-1, 1), frame.curr_z)]
    /\ UNCHANGED <<members, ip_data, last_call>>

\* A second call with the same arguments, delta_z as the first call left it.
CallAgain ==
    /\ frame.pc = "445"
    /\ frame.call_no = 1
    /\ frame' = [frame EXCEPT !.pc = "437", !.call_no = 2, !.mu = Rat(0, 1),
                              !.previous = <<frame.delta_z>>]
    /\ UNCHANGED <<members, ip_data, last_call>>

StepNext ==
    \/ ReadMu
    \/ Copy
    \/ AxpyTrialSlack
    \/ ElementWiseMultiply
    \/ AddScalar
    \/ ElementWiseDivide
    \/ AxpyCurrZ
    \/ CallAgain

StepSpec == StepInit /\ [][StepNext]_vars

\* -------------------------------------------------------- properties

\* A call has ended and its record stands.
CallEnded == outcome # "NONE"

\* The restoration algorithm was run in the call.
EngineRan == CallEnded /\ call.resto_status # "NONE"

Thrown ==
    {"RESTORATION_WALLTIME_EXCEEDED", "RESTORATION_CPUTIME_EXCEEDED",
     "FEASIBILITY_PROBLEM_SOLVED", "RESTORATION_CONVERGED_TO_FEASIBLE_POINT",
     "LOCALLY_INFEASIBLE", "RESTORATION_MAXITER_EXCEEDED", "RESTORATION_FAILED",
     "RESTORATION_USER_STOP"}

Occurs(name) == \E i \in 1..Len(events) : events[i] = name

Precedes(a, b) ==
    \E i \in 1..Len(events) : \E j \in 1..Len(events) :
        i < j /\ events[i] = a /\ events[j] = b

WallBudgetExhausted ==
    max_wall_time_ < NoTimeLimit /\ call.elapsed_wall >= max_wall_time_

CpuBudgetExhausted ==
    max_cpu_time_ < NoTimeLimit /\ call.elapsed_cpu >= max_cpu_time_

\* Block 0 of every vector of the restoration iterate the call got.
OuterBlocks ==
    LET rc == call.resto_curr[1]
    IN  [x |-> rc.x[1], s |-> rc.s[1], y_c |-> rc.y_c[1], y_d |-> rc.y_d[1],
         z_L |-> rc.z_L[1], z_U |-> rc.z_U[1], v_L |-> rc.v_L[1], v_U |-> rc.v_U[1]]

\* C1: a call entered with a finite wall-clock or CPU budget used up ends with
\* the time-exceeded exception of a budget that is used up (the wall-clock
\* one when that budget is used up, the CPU one otherwise), and the
\* restoration algorithm is neither initialized nor run in it.
C1_TimeExceededAtEntry ==
    (CallEnded /\ (WallBudgetExhausted \/ CpuBudgetExhausted)) =>
        /\ WallBudgetExhausted => outcome = "RESTORATION_WALLTIME_EXCEEDED"
        /\ ~WallBudgetExhausted => outcome = "RESTORATION_CPUTIME_EXCEEDED"
        /\ ~Occurs("Initialize")
        /\ ~Occurs("Optimize")
        /\ ~IsValid(actual_resto_options)
        /\ call.resto_status = "NONE"

\* C1 witness: both budgets are used up at entry and the call has ended.
C1_Witness ==
    /\ CallEnded
    /\ WallBudgetExhausted
    /\ CpuBudgetExhausted
    /\ outcome = "RESTORATION_WALLTIME_EXCEEDED"

\* C2 as stated: a call on a square problem never returns true while the
\* unscaled constraint violation is above constr_viol_tol.
C2_NeverSuccessAboveTol ==
    (CallEnded /\ call.square_problem /\ call.unscaled_violation > constr_viol_tol_)
        => outcome # "RETURN_TRUE"

\* C2 amended: on a square problem a call whose restoration status is not
\* SUCCESS never returns true; with status SUCCESS it returns true exactly
\* when the violation is above constr_viol_tol, and throws
\* FEASIBILITY_PROBLEM_SOLVED otherwise.
C2_SquareSuccessReturn ==
    (EngineRan /\ call.square_problem) =>
        /\ call.resto_status # "SUCCESS" => outcome # "RETURN_TRUE"
        /\ call.resto_status = "SUCCESS" =>
              IF call.unscaled_violation > constr_viol_tol_
              THEN outcome = "RETURN_TRUE"
              ELSE outcome = "FEASIBILITY_PROBLEM_SOLVED"

\* C2 witness: a square problem, a status the dispatch does not name, and a
\* call that ended without returning true.
C2_Witness ==
    /\ EngineRan
    /\ call.square_problem
    /\ call.resto_status \in UnnamedStatuses
    /\ outcome = "RETURN_FALSE"

\* C3 as stated: square problem, status STOP_AT_ACCEPTABLE_POINT, violation
\* strictly below constr_viol_tol: FEASIBILITY_PROBLEM_SOLVED is thrown and
\* the trial point has been accepted before the throw.
C3_AcceptableSquareAccepted ==
    (EngineRan /\ call.square_problem
        /\ call.resto_status = "STOP_AT_ACCEPTABLE_POINT"
        /\ call.unscaled_violation < constr_viol_tol_) =>
        /\ outcome = "FEASIBILITY_PROBLEM_SOLVED"
        /\ Precedes("AcceptTrialPoint", "throw")

\* C3 amended: for a square problem and status STOP_AT_ACCEPTABLE_POINT,
\* FEASIBILITY_PROBLEM_SOLVED is thrown exactly when the violation is strictly
\* below constr_viol_tol; at the throw the trial point has been accepted, and
\* is the current iterate, when the restoration data hold a current iterate,
\* and no trial point has been set or accepted when they hold none.
C3_AcceptableSquareSolved ==
    (EngineRan /\ call.square_problem
        /\ call.resto_status = "STOP_AT_ACCEPTABLE_POINT") =>
        /\ outcome = "FEASIBILITY_PROBLEM_SOLVED"
              <=> call.unscaled_violation < constr_viol_tol_
        /\ IsValid(call.resto_curr) =>
              /\ Precedes("set_trial", "AcceptTrialPoint")
              /\ Precedes("AcceptTrialPoint", "throw")
              /\ curr = OuterBlocks
        /\ ~IsValid(call.resto_curr) =>
              ~Occurs("set_trial") /\ ~Occurs("AcceptTrialPoint")

\* C3 witness: the scenario, with a current iterate in the restoration data.
C3_Witness ==
    /\ EngineRan
    /\ call.square_problem
    /\ call.resto_status = "STOP_AT_ACCEPTABLE_POINT"
    /\ call.unscaled_violation < constr_viol_tol_
    /\ IsValid(call.resto_curr)
    /\ outcome = "FEASIBILITY_PROBLEM_SOLVED"

\* C4: for a problem that is not square and status STOP_AT_TINY_STEP or
\* STOP_AT_ACCEPTABLE_POINT the call throws
\* RESTORATION_CONVERGED_TO_FEASIBLE_POINT when the primal infeasibility is
\* at most resto_failure_feasibility_threshold and LOCALLY_INFEASIBLE when
\* it is above; it never returns.
C4_TinyStepOrAcceptable ==
    (EngineRan /\ ~call.square_problem
        /\ call.resto_status \in {"STOP_AT_TINY_STEP", "STOP_AT_ACCEPTABLE_POINT"}) =>
        IF call.curr_primal_infeasibility <= resto_failure_feasibility_threshold_
        THEN outcome = "RESTORATION_CONVERGED_TO_FEASIBLE_POINT"
        ELSE outcome = "LOCALLY_INFEASIBLE"

\* C4 witness: a tiny step with the infeasibility at the threshold.
C4_Witness ==
    /\ EngineRan
    /\ ~call.square_problem
    /\ call.resto_status = "STOP_AT_TINY_STEP"
    /\ call.curr_primal_infeasibility = resto_failure_feasibility_threshold_
    /\ outcome = "RESTORATION_CONVERGED_TO_FEASIBLE_POINT"

\* C5: on every return of true, when the largest absolute entry of the four
\* repaired bound-multiplier vectors was above bound_mult_reset_threshold,
\* every entry of the trial point's four bound-multiplier vectors is 1, and
\* the trial point's primal variables and slacks are the ones copied from
\* the restoration iterate.
C5_ResetToOne ==
    (outcome = "RETURN_TRUE"
        /\ bound_mult_max[1] > bound_mult_reset_threshold_ * bound_mult_max[2]) =>
        /\ \A i \in 1..VecDim :
              /\ trial.z_L[i] = <<1, 1>>
              /\ trial.z_U[i] = <<1, 1>>
              /\ trial.v_L[i] = <<1, 1>>
              /\ trial.v_U[i] = <<1, 1>>
        /\ trial.x = GetComp(call.resto_curr[1].x, 0)
        /\ trial.s = GetComp(call.resto_curr[1].s, 0)

\* C5 witness: a return of true after the repaired multipliers exceeded the
\* threshold.
C5_Witness ==
    /\ outcome = "RETURN_TRUE"
    /\ bound_mult_max[1] > bound_mult_reset_threshold_ * bound_mult_max[2]
    /\ Occurs("ComputeBoundMultiplierStep")

\* C6: after a restoration status other than SUCCESS, when the restoration
\* data hold a current iterate, the trial point consists of the first
\* blocks of that iterate's eight vectors and has been accepted as the
\* current iterate before the exception is thrown or false is returned.
C6_SalvageBeforeFailure ==
    (EngineRan /\ call.resto_status # "SUCCESS" /\ IsValid(call.resto_curr)) =>
        /\ Precedes("set_trial", "AcceptTrialPoint")
        /\ curr = OuterBlocks
        /\ \/ Precedes("AcceptTrialPoint", "throw")
           \/ Precedes("AcceptTrialPoint", "return")
        /\ outcome # "RETURN_TRUE"

\* C6 witness: a failed restoration with a current iterate, ended by an
\* exception.
C6_Witness ==
    /\ EngineRan
    /\ call.resto_status = "MAXITER_EXCEEDED"
    /\ IsValid(call.resto_curr)
    /\ outcome = "RESTORATION_MAXITER_EXCEEDED"
    /\ curr = OuterBlocks

\* C7 as stated: a restoration status the dispatch does not name ends the
\* call with an exception, never with a return.
C7_UnnamedStatusThrows ==
    (EngineRan /\ call.resto_status \in UnnamedStatuses) => outcome \in Thrown

\* C7 amended: every status other than SUCCESS that the dispatch names ends
\* the call with an exception; a status it does not name ends the call
\* with a return of false, never of true, and with no exception.
C7_UnnamedStatusReturnsFalse ==
    (EngineRan /\ call.resto_status # "SUCCESS") =>
        IF call.resto_status \in UnnamedStatuses
        THEN outcome = "RETURN_FALSE" /\ Occurs("return") /\ ~Occurs("throw")
        ELSE outcome \in Thrown /\ Occurs("throw") /\ ~Occurs("return")

\* C7 witness: a named failure status other than the tiny-step and
\* acceptable-point ones, ended by its exception.
C7_Witness ==
    /\ EngineRan
    /\ call.resto_status = "USER_REQUESTED_STOP"
    /\ outcome = "RESTORATION_USER_STOP"
    /\ Occurs("throw")

\* The early exit: a square problem, status SUCCESS, and a violation of at
\* most constr_viol_tol.
EarlyExit ==
    /\ EngineRan
    /\ call.square_problem
    /\ call.resto_status = "SUCCESS"
    /\ call.unscaled_violation <= constr_viol_tol_

\* C8 as stated: in the early exit for a square problem the bound multipliers
\* have been repaired before the trial point is accepted.
C8_RepairBeforeCommit ==
    EarlyExit => Precedes("ComputeBoundMultiplierStep", "AcceptTrialPoint")

\* C8 amended: in the early exit for a square problem the trial point with
\* the primal variables and slacks of the restoration iterate is accepted
\* as the current iterate and FEASIBILITY_PROBLEM_SOLVED is thrown without
\* the bound multipliers having been repaired.
C8_CommitWithoutRepair ==
    EarlyExit =>
        /\ outcome = "FEASIBILITY_PROBLEM_SOLVED"
        /\ events = <<"Initialize", "Optimize", "set_trial", "AcceptTrialPoint", "throw">>
        /\ ~Occurs("ComputeBoundMultiplierStep")
        /\ ~Occurs("SetTrialBoundMultipliersFromStep")
        /\ curr.x = GetComp(call.resto_curr[1].x, 0)
        /\ curr.s = GetComp(call.resto_curr[1].s, 0)

\* C8 witness: the early exit with the violation at constr_viol_tol.
C8_Witness ==
    /\ EarlyExit
    /\ call.unscaled_violation = constr_viol_tol_
    /\ outcome = "FEASIBILITY_PROBLEM_SOLVED"

UserSetReduction == "required_infeasibility_reduction" \in DOMAIN resto_options_[1]

\* C9 as stated: for a square problem the options the restoration algorithm
\* is initialized with have required_infeasibility_reduction equal to 0.
C9_ReductionForcedZero ==
    (CallEnded /\ call.square_problem /\ IsValid(actual_resto_options)) =>
        /\ "required_infeasibility_reduction" \in DOMAIN actual_resto_options[1]
        /\ actual_resto_options[1]["required_infeasibility_reduction"] = 0

\* C9 amended: for a square problem the options the restoration algorithm
\* is initialized with have required_infeasibility_reduction equal to 0
\* when the options of the restoration phase carry no value for it, and
\* equal to that value when they do.
C9_ReductionZeroIfUnset ==
    (CallEnded /\ call.square_problem /\ IsValid(actual_resto_options)) =>
        /\ "required_infeasibility_reduction" \in DOMAIN actual_resto_options[1]
        /\ actual_resto_options[1]["required_infeasibility_reduction"] =
              IF UserSetReduction
              THEN resto_options_[1]["required_infeasibility_reduction"]
              ELSE 0
        /\ Occurs("Initialize")

\* C9 witness: a square problem with the option left unset, the restoration
\* algorithm initialized with the value 0.
C9_Witness ==
    /\ CallEnded
    /\ call.square_problem
    /\ IsValid(actual_resto_options)
    /\ ~UserSetReduction
    /\ actual_resto_options[1]["required_infeasibility_reduction"] = 0

ReductionDemanded(opts) ==
    /\ "required_infeasibility_reduction" \in DOMAIN opts
    /\ opts["required_infeasibility_reduction"] = OneEm3

\* C10: every call increases count_restorations_ by one, whatever its
\* outcome; the options the restoration algorithm is initialized with
\* demand a required_infeasibility_reduction of 1e-3 only in the first call
\* on a problem that is not square and expected to be infeasible, entered
\* with a constraint violation above 1e-3; the options kept for later calls
\* never carry that demand.
C10_CountAndFirstCallOnly ==
    /\ [](CallEnded =>
            /\ count_restorations_ >= 1
            /\ (IsValid(actual_resto_options) /\ ReductionDemanded(actual_resto_options[1])) =>
                  /\ count_restorations_ = 1
                  /\ call.curr_constraint_violation > OneEm3
                  /\ ~call.square_problem
                  /\ expect_infeasible_problem_
            /\ ~ReductionDemanded(resto_options_[1]))
    /\ [][(outcome = "NONE" /\ outcome' # "NONE")
            => count_restorations_' = count_restorations_ + 1]_vars
    /\ [][(outcome # "NONE" /\ outcome' = "NONE")
            => /\ count_restorations_' = count_restorations_
               /\ resto_options_' = resto_options_]_vars

\* C10 witness: a second call on a problem expected to be infeasible, entered
\* with a constraint violation above 1e-3, whose options carry no demand.
C10_Witness ==
    /\ CallEnded
    /\ count_restorations_ = 2
    /\ expect_infeasible_problem_
    /\ ~call.square_problem
    /\ call.curr_constraint_violation > OneEm3
    /\ IsValid(actual_resto_options)
    /\ ~ReductionDemanded(actual_resto_options[1])

\* The arguments of the call that is followed.
StepArguments ==
    <<frame.curr_z, frame.curr_slack, frame.trial_slack, frame.curr_mu>>

\* C11: when ComputeBoundMultiplierStep returns, every entry of delta_z is
\* ((curr_slack - trial_slack) * curr_z + mu) / curr_slack - curr_z with mu
\* the barrier parameter of IpData(); for an entry whose slack has not moved
\* and whose curr_z is not 0 that is mu / curr_slack - curr_z; a second call
\* with the same arguments leaves the same delta_z, whatever delta_z held
\* on entry; and no statement of the call changes curr_z, curr_slack,
\* trial_slack or the barrier parameter.
C11_BoundMultiplierStep ==
    /\ [](frame.pc = "445" =>
            /\ frame.mu = frame.curr_mu
            /\ \A i \in 1..VecDim :
                  /\ frame.delta_z[i] =
                        RatSub(RatDiv(RatAdd(RatMul(RatSub(frame.curr_slack[i],
                                                           frame.trial_slack[i]),
                                                    frame.curr_z[i]),
                                             frame.curr_mu),
                                      frame.curr_slack[i]),
                               frame.curr_z[i])
                  /\ (frame.curr_slack[i] = frame.trial_slack[i]
                         /\ frame.curr_z[i] # Rat(0, 1)) =>
                        frame.delta_z[i] =
                            RatSub(RatDiv(frame.curr_mu, frame.curr_slack[i]),
                                   frame.curr_z[i])
            /\ frame.call_no = 2 => frame.delta_z = frame.previous[1])
    /\ [][StepArguments' = StepArguments]_vars

\* C11 witness: a second call has returned, on arguments with a slack that
\* has not moved under a multiplier that is not 0 and a slack that has
\* moved, and with a delta_z on entry of the first call that was not 0.
C11_Witness ==
    /\ frame.pc = "445"
    /\ frame.call_no = 2
    /\ frame.curr_mu = Rat(1, 10)
    /\ \E i \in 1..VecDim :
          /\ frame.curr_slack[i] = frame.trial_slack[i]
          /\ frame.curr_z[i] # Rat(0, 1)
    /\ \E i \in 1..VecDim : frame.curr_slack[i] # frame.trial_slack[i]

====
